---- MODULE Spec2Model ----
(***************************************************************************)
(* A model of the Plasma AMM adapter (defiborg/plasma-sdk):                *)
(*   - the pool snapshot PlasmaAmm and its refresh / quote / swap-metas    *)
(*     operations (src/lib.rs),                                            *)
(*   - the instruction encoders (src/plasma/plasma_utils.rs),              *)
(*   - the I80F48 fixed-point wrapper (src/plasma/fixed.rs).               *)
(*                                                                         *)
(* Pubkeys are modelled as natural numbers.  Account data is a sequence of *)
(* cells; the 8 discriminator bytes of a pool account are kept as bytes,   *)
(* every other cell stands for one fixed-width field of the layout.        *)
(***************************************************************************)
EXTENDS Integers, Sequences, FiniteSets, TLC

VARIABLES
    pc,             \* "new" before from_keyed_account has succeeded, then "ready"
    snap,           \* the PlasmaAmm snapshot
    call,           \* the last call made and what it returned
    payload_cycle,  \* the refresh cycle snap.plasma_amm was written in
    slot_cycle,     \* the refresh cycle snap.slot was written in
    build,          \* the build profile the crate is compiled with
    fx              \* the two I80F48 operands of the arithmetic calls

vars == <<pc, snap, call, payload_cycle, slot_cycle, build, fx>>

(***************************************************************************)
(* Bounds of the model.                                                    *)
(***************************************************************************)
\* Largest token-account balance and largest trade amount.
MaxAmount == 1
\* Largest slot the clock account or the AmmContext reports.
MaxSlot == 1
\* Width of the fixed-point number in the model, and how many of its bits
\* are fractional: I80F48 is 128 bits wide with 48 fractional bits, the
\* model keeps the two's-complement arithmetic at a width TLC can enumerate.
FixedBits == 5
FracBits == 2

(***************************************************************************)
(* Program constants.                                                      *)
(***************************************************************************)
\* declare_id!("srAMM...") of the pool program.
ID == 90
\* spl_token::ID.
SPL_TOKEN_ID == 91
\* system_program::ID.
SYSTEM_PROGRAM_ID == 92
\* sysvar::clock::id().
CLOCK_ID == 93

SWAP_DISCRIMINATOR == 0
ADD_LIQUIDITY_DISCRIMINATOR == 1
REMOVE_LIQUIDITY_DISCRIMINATOR == 2
INITIALIZE_LP_POSITION_DISCRIMINATOR == 5
INITIALIZE_POOL_DISCRIMINATOR == 6
TRANSFER_LIQUIDITY_DISCRIMINATOR == 9

POOL_DISCRIMINATOR == <<116, 210, 187, 119, 196, 196, 52, 137>>

(***************************************************************************)
(* Inputs.                                                                 *)
(***************************************************************************)
\* Token mints: two that pools are made of, and a third one.
Mints == {1, 2, 3}
PoolMints == {1, 2}
\* Addresses of the pool accounts handed to from_keyed_account.
PoolKeys == {4}
\* Token accounts that are not the vault derived for any pool and mint.
SpoofVaults == {8}
\* The trader (token transfer authority) and the trader's token accounts.
Traders == {5}
TokenAccounts == {6, 7}
\* Owners of LP positions and fee recipients.
Owners == {5, 9}
\* Opaque AMM-state payloads that follow the header (0: a pool the
\* simulation rejects).
AmmPayloads == {0, 1}
Amounts == 1..MaxAmount
Slots == 0..MaxSlot

\* A discriminator that is not POOL_DISCRIMINATOR.
OTHER_DISCRIMINATOR == <<0, 0, 0, 0, 0, 0, 0, 0>>

(***************************************************************************)
(* Program-derived addresses.  Pubkey::find_program_address is a hash of   *)
(* the seeds and the program id; it is modelled as an injective encoding   *)
(* into a range no other key of the model lies in.                         *)
(***************************************************************************)
find_program_address(seed, a, b, program_id) ==
    (seed * 100000) + (program_id * 1000) + (a * 10) + b

get_vault_address(plasma_program_id, pool, mint) ==
    find_program_address(1, pool, mint, plasma_program_id)

get_lp_position_address(plasma_program_id, pool, trader) ==
    find_program_address(2, pool, trader, plasma_program_id)

get_log_authority(plasma_program_id) ==
    find_program_address(3, 0, 0, plasma_program_id)

(***************************************************************************)
(* Account data and its decoders.                                          *)
(***************************************************************************)
\* Cells of a pool account: 8 discriminator bytes, then base mint, base
\* vault, quote mint, quote vault and the AMM-state payload.
PoolCells == Len(POOL_DISCRIMINATOR) + 5
\* Cells of an SPL token account: amount, state (0: uninitialized).
TokenCells == 2
\* Cells of the clock sysvar that are read: slot.
ClockCells == 1

EncodePool(disc, base_mint, base_vault, quote_mint, quote_vault, amm) ==
    disc \o <<base_mint, base_vault, quote_mint, quote_vault, amm>>

\* PoolAccount::try_from_slice (derived Borsh): reads the fields in order,
\* fails when the input is too short or when bytes are left over.  The
\* discriminator is read like any other field.
PoolAccount_try_from_slice(data) ==
    IF Len(data) # PoolCells
    THEN [ok |-> FALSE]
    ELSE [ok |-> TRUE,
          value |->
            [header |->
               [discriminator |-> SubSeq(data, 1, 8),
                base_params  |-> [mint_key |-> data[9],  vault_key |-> data[10]],
                quote_params |-> [mint_key |-> data[11], vault_key |-> data[12]]],
             amm |-> data[13]]]

\* TokenAccount::unpack (Pack): the length must be the packed length and
\* the account initialized.
TokenAccount_unpack(data) ==
    IF Len(data) # TokenCells THEN [ok |-> FALSE]
    ELSE IF data[2] = 0 THEN [ok |-> FALSE]
    ELSE [ok |-> TRUE, amount |-> data[1]]

\* bincode::deserialize::<Clock>: fails on a short input.
Clock_deserialize(data) ==
    IF Len(data) < ClockCells THEN [ok |-> FALSE]
    ELSE [ok |-> TRUE, slot |-> data[1]]

(***************************************************************************)
(* PlasmaAmm::from_keyed_account.                                          *)
(***************************************************************************)
from_keyed_account(key, data, context_slot) ==
    LET pool_account == PoolAccount_try_from_slice(data) IN
    IF ~pool_account.ok THEN [ok |-> FALSE]
    ELSE [ok |-> TRUE,
          value |-> [pool_address |-> key,
                     plasma_amm |-> pool_account.value,
                     base_vault_amount |-> 0,
                     quote_vault_amount |-> 0,
                     slot |-> context_slot]]

get_accounts_to_update(self) ==
    <<self.pool_address,
      self.plasma_amm.header.base_params.vault_key,
      self.plasma_amm.header.quote_params.vault_key,
      CLOCK_ID>>

(***************************************************************************)
(* PlasmaAmm::update.  The result carries the snapshot as the call leaves  *)
(* it, and the number of statements that assigned to it (0: none, 1: the   *)
(* vault amounts, 2: also the pool payload, 3: also the slot).             *)
(***************************************************************************)
UpdateErr(self, written, why) ==
    [ok |-> FALSE, self |-> self, written |-> written, err |-> why]

update(self, account_map) ==
    LET base_key  == self.plasma_amm.header.base_params.vault_key
        quote_key == self.plasma_amm.header.quote_params.vault_key
    IN
    IF base_key \notin DOMAIN account_map
    THEN UpdateErr(self, 0, "MissingAccount")
    ELSE
    LET base_vault_token_account == TokenAccount_unpack(account_map[base_key]) IN
    IF ~base_vault_token_account.ok
    THEN UpdateErr(self, 0, "Unpack")
    ELSE
    IF quote_key \notin DOMAIN account_map
    THEN UpdateErr(self, 0, "MissingAccount")
    ELSE
    LET quote_vault_token_account == TokenAccount_unpack(account_map[quote_key]) IN
    IF ~quote_vault_token_account.ok
    THEN UpdateErr(self, 0, "Unpack")
    ELSE
    LET self1 == [self EXCEPT
                    !.base_vault_amount = base_vault_token_account.amount,
                    !.quote_vault_amount = quote_vault_token_account.amount]
    IN
    IF self.pool_address \notin DOMAIN account_map
    THEN UpdateErr(self1, 1, "MissingAccount")
    ELSE
    LET plasma_amm == PoolAccount_try_from_slice(account_map[self.pool_address]) IN
    IF ~plasma_amm.ok
    THEN UpdateErr(self1, 1, "Deserialize")
    ELSE
    LET self2 == [self1 EXCEPT !.plasma_amm = plasma_amm.value] IN
    IF CLOCK_ID \notin DOMAIN account_map
    THEN UpdateErr(self2, 2, "MissingAccount")
    ELSE
    LET clock == Clock_deserialize(account_map[CLOCK_ID]) IN
    IF ~clock.ok
    THEN UpdateErr(self2, 2, "Deserialize")
    ELSE [ok |-> TRUE, self |-> [self2 EXCEPT !.slot = clock.slot],
          written |-> 3, err |-> "none"]

(***************************************************************************)
(* The swap simulation of plasma_amm::Amm.  It is a function of the AMM    *)
(* payload, the slot and the amount; payload 0 is a pool it rejects.  The  *)
(* outputs are tagged by direction so that the two directions, two slots   *)
(* or two payloads never give the same output.                             *)
(***************************************************************************)
simulate_buy_exact_in_with_slot(amm, slot, amount) ==
    IF amm = 0 THEN [ok |-> FALSE]
    ELSE [ok |-> TRUE,
          base_amount_to_transfer  |-> 1000 + (100 * amm) + (10 * slot) + amount,
          quote_amount_to_transfer |-> amount]

simulate_sell_exact_in_with_slot(amm, slot, amount) ==
    IF amm = 0 THEN [ok |-> FALSE]
    ELSE [ok |-> TRUE,
          base_amount_to_transfer  |-> amount,
          quote_amount_to_transfer |-> 2000 + (100 * amm) + (10 * slot) + amount]

(***************************************************************************)
(* PlasmaAmm::quote.  output_mint and swap_mode are not read.              *)
(***************************************************************************)
\* quote returning the other amount of the simulation's result: the input
\* side of the trade instead of its output side.
quote_returns_input_side(self, quote_params) ==
    LET amount == quote_params.amount
        is_quote_to_base ==
            (quote_params.input_mint = self.plasma_amm.header.quote_params.mint_key)
        swap_result ==
            IF is_quote_to_base
            THEN simulate_buy_exact_in_with_slot(self.plasma_amm.amm, self.slot, amount)
            ELSE simulate_sell_exact_in_with_slot(self.plasma_amm.amm, self.slot, amount)
    IN
    IF ~swap_result.ok THEN [ok |-> FALSE, in_amount |-> 0, out_amount |-> 0]
    ELSE [ok |-> TRUE,
          in_amount |-> amount,
          out_amount |-> IF is_quote_to_base
                         THEN swap_result.quote_amount_to_transfer
                         ELSE swap_result.base_amount_to_transfer]

\* quote with the output capped by the balance of the vault that pays it.
quote_capped_by_vault(self, quote_params) ==
    LET amount == quote_params.amount
        is_quote_to_base ==
            (quote_params.input_mint = self.plasma_amm.header.quote_params.mint_key)
        swap_result ==
            IF is_quote_to_base
            THEN simulate_buy_exact_in_with_slot(self.plasma_amm.amm, self.slot, amount)
            ELSE simulate_sell_exact_in_with_slot(self.plasma_amm.amm, self.slot, amount)
        out == IF is_quote_to_base
               THEN swap_result.base_amount_to_transfer
               ELSE swap_result.quote_amount_to_transfer
        vault == IF is_quote_to_base
                 THEN self.base_vault_amount ELSE self.quote_vault_amount
    IN
    IF ~swap_result.ok THEN [ok |-> FALSE, in_amount |-> 0, out_amount |-> 0]
    ELSE [ok |-> TRUE,
          in_amount |-> amount,
          out_amount |-> IF out <= vault THEN out ELSE vault]

quote(self, quote_params) ==
    LET amount == quote_params.amount
        input_mint == quote_params.input_mint
        is_quote_to_base == (input_mint = self.plasma_amm.header.quote_params.mint_key)
        swap_result ==
            IF is_quote_to_base
            THEN simulate_buy_exact_in_with_slot(self.plasma_amm.amm, self.slot, amount)
            ELSE simulate_sell_exact_in_with_slot(self.plasma_amm.amm, self.slot, amount)
    IN
    IF ~swap_result.ok THEN [ok |-> FALSE, in_amount |-> 0, out_amount |-> 0]
    ELSE [ok |-> TRUE,
          in_amount |-> amount,
          out_amount |-> IF is_quote_to_base
                         THEN swap_result.base_amount_to_transfer
                         ELSE swap_result.quote_amount_to_transfer]

(***************************************************************************)
(* Borsh serialization.                                                    *)
(***************************************************************************)
RECURSIVE le_bytes(_, _)
\* The n low bytes of v, least significant first.
le_bytes(v, n) ==
    IF n = 0 THEN <<>> ELSE <<v % 256>> \o le_bytes(v \div 256, n - 1)

borsh_u64(v) == le_bytes(v, 8)
borsh_pubkey(k) == le_bytes(k, 32)
\* Option<u64>: a tag byte, then the value when there is one.
borsh_option_u64(o) == IF o.some THEN <<1>> \o borsh_u64(o.value) ELSE <<0>>
\* enum Side { Buy, Sell }: the variant index.
borsh_side(side) == IF side = "Buy" THEN <<0>> ELSE <<1>>
\* enum SwapType { ExactIn {..}, ExactOut {..} }: the variant index, then
\* the two fields in declaration order.
borsh_swap_type(t) ==
    IF t.variant = "ExactIn"
    THEN <<0>> \o borsh_u64(t.amount_in) \o borsh_u64(t.min_amount_out)
    ELSE <<1>> \o borsh_u64(t.amount_out) \o borsh_u64(t.max_amount_in)
borsh_swap_params(p) == borsh_side(p.side) \o borsh_swap_type(p.swap_type)
borsh_add_liquidity_params(p) ==
    borsh_u64(p.desired_base_amount_in) \o borsh_u64(p.desired_quote_amount_in)
        \o borsh_option_u64(p.initial_lp_shares)
borsh_fee_recipient_params(r) == borsh_pubkey(r.recipient) \o borsh_u64(r.shares)
borsh_initialize_pool_params(p) ==
    borsh_u64(p.lp_fee_in_bps) \o borsh_u64(p.protocol_fee_allocation_in_pct)
        \o borsh_fee_recipient_params(p.fee_recipients_params[1])
        \o borsh_fee_recipient_params(p.fee_recipients_params[2])
        \o borsh_fee_recipient_params(p.fee_recipients_params[3])
        \o borsh_option_u64(p.num_slots_to_vest_lp_shares)

(***************************************************************************)
(* Instructions.                                                           *)
(***************************************************************************)
\* AccountMeta::new(pubkey, is_signer).
AccountMeta_new(pubkey, is_signer) ==
    [pubkey |-> pubkey, is_signer |-> is_signer, is_writable |-> TRUE]
\* AccountMeta::new_readonly(pubkey, is_signer).
AccountMeta_new_readonly(pubkey, is_signer) ==
    [pubkey |-> pubkey, is_signer |-> is_signer, is_writable |-> FALSE]

\* swap with the trader passed as a writable signer, as initialize_pool
\* passes the pool creator.
swap_trader_writable(pool_key, trader, base_mint, quote_mint, base_account_key, quote_account_key, params) ==
    LET log_authority == get_log_authority(ID)
        base_vault_key == get_vault_address(ID, pool_key, base_mint)
        quote_vault_key == get_vault_address(ID, pool_key, quote_mint)
    IN [program_id |-> ID,
        accounts |-> <<AccountMeta_new_readonly(ID, FALSE),
                       AccountMeta_new_readonly(log_authority, FALSE),
                       AccountMeta_new(pool_key, FALSE),
                       AccountMeta_new(trader, TRUE),
                       AccountMeta_new(base_account_key, FALSE),
                       AccountMeta_new(quote_account_key, FALSE),
                       AccountMeta_new(base_vault_key, FALSE),
                       AccountMeta_new(quote_vault_key, FALSE),
                       AccountMeta_new_readonly(SPL_TOKEN_ID, FALSE)>>,
        data |-> <<SWAP_DISCRIMINATOR>> \o borsh_swap_params(params)]

swap(pool_key, trader, base_mint, quote_mint, base_account_key, quote_account_key, params) ==
    LET log_authority == get_log_authority(ID)
        base_vault_key == get_vault_address(ID, pool_key, base_mint)
        quote_vault_key == get_vault_address(ID, pool_key, quote_mint)
    IN [program_id |-> ID,
        accounts |-> <<AccountMeta_new_readonly(ID, FALSE),
                       AccountMeta_new_readonly(log_authority, FALSE),
                       AccountMeta_new(pool_key, FALSE),
                       AccountMeta_new_readonly(trader, TRUE),
                       AccountMeta_new(base_account_key, FALSE),
                       AccountMeta_new(quote_account_key, FALSE),
                       AccountMeta_new(base_vault_key, FALSE),
                       AccountMeta_new(quote_vault_key, FALSE),
                       AccountMeta_new_readonly(SPL_TOKEN_ID, FALSE)>>,
        data |-> <<SWAP_DISCRIMINATOR>> \o borsh_swap_params(params)]

initialize_pool(pool_key, pool_creator, base_mint, quote_mint, params) ==
    LET base_vault == get_vault_address(ID, pool_key, base_mint)
        quote_vault == get_vault_address(ID, pool_key, quote_mint)
        log_authority == get_log_authority(ID)
    IN [program_id |-> ID,
        accounts |-> <<AccountMeta_new_readonly(ID, FALSE),
                       AccountMeta_new_readonly(log_authority, FALSE),
                       AccountMeta_new(pool_key, FALSE),
                       AccountMeta_new(pool_creator, TRUE),
                       AccountMeta_new_readonly(base_mint, FALSE),
                       AccountMeta_new_readonly(quote_mint, FALSE),
                       AccountMeta_new(base_vault, FALSE),
                       AccountMeta_new(quote_vault, FALSE),
                       AccountMeta_new_readonly(SYSTEM_PROGRAM_ID, FALSE),
                       AccountMeta_new_readonly(SPL_TOKEN_ID, FALSE)>>,
        data |-> <<INITIALIZE_POOL_DISCRIMINATOR>> \o borsh_initialize_pool_params(params)]

initialize_lp_position(pool_key, payer, lp_position_owner) ==
    LET log_authority == get_log_authority(ID)
        lp_position_key == get_lp_position_address(ID, pool_key, lp_position_owner)
    IN [program_id |-> ID,
        accounts |-> <<AccountMeta_new_readonly(ID, FALSE),
                       AccountMeta_new_readonly(log_authority, FALSE),
                       AccountMeta_new(pool_key, FALSE),
                       AccountMeta_new(payer, TRUE),
                       AccountMeta_new_readonly(lp_position_owner, FALSE),
                       AccountMeta_new(lp_position_key, FALSE),
                       AccountMeta_new_readonly(SYSTEM_PROGRAM_ID, FALSE)>>,
        data |-> <<INITIALIZE_LP_POSITION_DISCRIMINATOR>>]

add_liquidity(pool_key, trader, base_mint, base_mint_account_key, quote_mint, quote_mint_account_key, params) ==
    LET log_authority == get_log_authority(ID)
        lp_position_key == get_lp_position_address(ID, pool_key, trader)
        base_vault_key == get_vault_address(ID, pool_key, base_mint)
        quote_vault_key == get_vault_address(ID, pool_key, quote_mint)
    IN [program_id |-> ID,
        accounts |-> <<AccountMeta_new_readonly(ID, FALSE),
                       AccountMeta_new_readonly(log_authority, FALSE),
                       AccountMeta_new(pool_key, FALSE),
                       AccountMeta_new_readonly(trader, TRUE),
                       AccountMeta_new(lp_position_key, FALSE),
                       AccountMeta_new(base_mint_account_key, FALSE),
                       AccountMeta_new(quote_mint_account_key, FALSE),
                       AccountMeta_new(base_vault_key, FALSE),
                       AccountMeta_new(quote_vault_key, FALSE),
                       AccountMeta_new_readonly(SPL_TOKEN_ID, FALSE)>>,
        data |-> <<ADD_LIQUIDITY_DISCRIMINATOR>> \o borsh_add_liquidity_params(params)]

transfer_liquidity(pool_key, src, dst) ==
    LET log_authority == get_log_authority(ID)
        src_lp_position_key == get_lp_position_address(ID, pool_key, src)
        dst_lp_position_key == get_lp_position_address(ID, pool_key, dst)
    IN [program_id |-> ID,
        accounts |-> <<AccountMeta_new_readonly(ID, FALSE),
                       AccountMeta_new_readonly(log_authority, FALSE),
                       AccountMeta_new(pool_key, FALSE),
                       AccountMeta_new(src, TRUE),
                       AccountMeta_new(src_lp_position_key, FALSE),
                       AccountMeta_new(dst_lp_position_key, FALSE)>>,
        data |-> <<TRANSFER_LIQUIDITY_DISCRIMINATOR>>]

\* remove_liquidity with the share count serialized as a byte vector, that
\* is behind a 4-byte length.
remove_liquidity_length_prefixed(pool_key, trader, base_mint, quote_mint, base_account_key, quote_account_key, shares) ==
    [program_id |-> ID,
     accounts |-> <<AccountMeta_new_readonly(ID, FALSE),
                    AccountMeta_new_readonly(get_log_authority(ID), FALSE),
                    AccountMeta_new(pool_key, FALSE),
                    AccountMeta_new_readonly(trader, TRUE),
                    AccountMeta_new(get_lp_position_address(ID, pool_key, trader), FALSE),
                    AccountMeta_new(base_account_key, FALSE),
                    AccountMeta_new(quote_account_key, FALSE),
                    AccountMeta_new(get_vault_address(ID, pool_key, base_mint), FALSE),
                    AccountMeta_new(get_vault_address(ID, pool_key, quote_mint), FALSE),
                    AccountMeta_new_readonly(SPL_TOKEN_ID, FALSE)>>,
     data |-> <<REMOVE_LIQUIDITY_DISCRIMINATOR>> \o le_bytes(8, 4) \o borsh_u64(shares)]

remove_liquidity(pool_key, trader, base_mint, quote_mint, base_account_key, quote_account_key, shares) ==
    LET log_authority == get_log_authority(ID)
        lp_position_key == get_lp_position_address(ID, pool_key, trader)
        base_vault_key == get_vault_address(ID, pool_key, base_mint)
        quote_vault_key == get_vault_address(ID, pool_key, quote_mint)
    IN [program_id |-> ID,
        accounts |-> <<AccountMeta_new_readonly(ID, FALSE),
                       AccountMeta_new_readonly(log_authority, FALSE),
                       AccountMeta_new(pool_key, FALSE),
                       AccountMeta_new_readonly(trader, TRUE),
                       AccountMeta_new(lp_position_key, FALSE),
                       AccountMeta_new(base_account_key, FALSE),
                       AccountMeta_new(quote_account_key, FALSE),
                       AccountMeta_new(base_vault_key, FALSE),
                       AccountMeta_new(quote_vault_key, FALSE),
                       AccountMeta_new_readonly(SPL_TOKEN_ID, FALSE)>>,
        data |-> <<REMOVE_LIQUIDITY_DISCRIMINATOR>> \o borsh_u64(shares)]

(***************************************************************************)
(* PlasmaAmm::get_swap_and_account_metas, with its locals as operators.    *)
(***************************************************************************)
swap_user_atas(self, swap_params) ==
    IF swap_params.source_mint = self.plasma_amm.header.base_params.mint_key
    THEN [user_base_ata  |-> swap_params.source_token_account,
          user_quote_ata |-> swap_params.destination_token_account]
    ELSE [user_base_ata  |-> swap_params.destination_token_account,
          user_quote_ata |-> swap_params.source_token_account]

swap_side(self, swap_params) ==
    IF swap_params.source_mint = self.plasma_amm.header.quote_params.mint_key
    THEN "Buy" ELSE "Sell"

swap_instruction_data(self, swap_params) ==
    [side |-> swap_side(self, swap_params),
     swap_type |-> [variant |-> "ExactIn",
                    amount_in |-> swap_params.in_amount,
                    min_amount_out |-> swap_params.out_amount]]

swap_ix(self, swap_params) ==
    LET atas == swap_user_atas(self, swap_params) IN
    swap(self.pool_address,
         swap_params.token_transfer_authority,
         self.plasma_amm.header.base_params.mint_key,
         self.plasma_amm.header.quote_params.mint_key,
         atas.user_base_ata,
         atas.user_quote_ata,
         swap_instruction_data(self, swap_params))

get_swap_and_account_metas(self, swap_params) ==
    [swap |-> "TokenSwap", account_metas |-> swap_ix(self, swap_params).accounts]

(***************************************************************************)
(* The accounts a caller can hand to update.                               *)
(***************************************************************************)
\* The choice "this account is not in the map".
Absent == <<-1>>

\* Pool accounts with either discriminator, base mint 1 and a quote mint of
\* quote_mints, the quote vault derived, the base vault derived or not, any
\* payload.
PoolBuffersOf(quote_mints) ==
    {EncodePool(d, 1, bv, qm, get_vault_address(ID, p, qm), a) :
        d \in {POOL_DISCRIMINATOR, OTHER_DISCRIMINATOR},
        p \in PoolKeys,
        bv \in {get_vault_address(ID, q, 1) : q \in PoolKeys} \cup SpoofVaults,
        qm \in quote_mints,
        a \in AmmPayloads}

\* The pool accounts handed to from_keyed_account and to update: pools of
\* mints 1 and 2.
PoolBuffers == PoolBuffersOf({2})

\* A pool account cut short by one cell.
TruncatedPool == LET b == CHOOSE x \in PoolBuffers : TRUE IN SubSeq(b, 1, Len(b) - 1)

PoolChoices == {Absent, TruncatedPool} \cup PoolBuffers
\* Token accounts: initialized with an amount, or uninitialized.
VaultChoices == {Absent, <<1, 0>>} \cup {<<a, 1>> : a \in Amounts}
\* Clock accounts: with a slot, or empty.
ClockChoices == {Absent, <<>>} \cup {<<s>> : s \in Slots}

\* The map a caller builds for a refresh: it fetches the accounts that
\* get_accounts_to_update names and inserts those it received
\* (tests::test_plasma_amm).  update looks up no other key.
MkAccountMap(self, pool_data, base_data, quote_data, clock_data) ==
    LET keys == get_accounts_to_update(self)
        data == <<pool_data, base_data, quote_data, clock_data>>
        present == {i \in 1..4 : data[i] # Absent}
    IN [k \in {keys[i] : i \in present} |->
            data[CHOOSE i \in present : keys[i] = k]]

QuoteParams == [input_mint : Mints, amount : Amounts]

\* Every quote the snapshot gives.
QuoteTable(self) == [p \in QuoteParams |-> quote(self, p)]

(***************************************************************************)
(* The life of one snapshot: construction, then refreshes.                 *)
(***************************************************************************)
NoSnap == [pool_address |-> 0]
NoBuild == [overflow_checks |-> FALSE, debug_assertions |-> FALSE]
NoOperands == [a |-> 0, b |-> 0]

Init ==
    /\ pc = "new"
    /\ snap = NoSnap
    /\ call = [op |-> "none"]
    /\ payload_cycle = 0
    /\ slot_cycle = 0
    /\ build = NoBuild
    /\ fx = NoOperands

FromKeyedAccount ==
    /\ pc = "new"
    /\ \E key \in PoolKeys, data \in PoolChoices \ {Absent}, context_slot \in Slots :
         LET r == from_keyed_account(key, data, context_slot) IN
         /\ pc' = IF r.ok THEN "ready" ELSE pc
         /\ snap' = IF r.ok THEN r.value ELSE snap
         /\ call' = [op |-> "from_keyed_account", ok |-> r.ok]
    /\ UNCHANGED <<payload_cycle, slot_cycle, build, fx>>

\* A refresh cycle is named by a number neither field of the snapshot
\* carries, so two fields carry the same number exactly when the same
\* cycle wrote them.
FreshCycle == CHOOSE i \in 0..2 : i \notin {payload_cycle, slot_cycle}

\* The refresh a caller makes with these four accounts.
UpdateWith(pool_data, base_data, quote_data, clock_data) ==
    LET account_map == MkAccountMap(snap, pool_data, base_data, quote_data, clock_data)
        r == update(snap, account_map)
        repeat == call.op = "update" /\ call.ok /\ call.account_map = account_map
    IN
    /\ snap' = r.self
    /\ payload_cycle' = IF r.written >= 2 THEN FreshCycle ELSE payload_cycle
    /\ slot_cycle' = IF r.written >= 3 THEN FreshCycle ELSE slot_cycle
    /\ call' = IF r.ok
               THEN [op |-> "update", ok |-> TRUE, err |-> r.err,
                     account_map |-> account_map, repeat |-> repeat,
                     quotes_before |-> IF repeat THEN QuoteTable(snap) ELSE <<>>]
               ELSE [op |-> "update", ok |-> FALSE, err |-> r.err]

Update ==
    /\ pc = "ready"
    /\ \E pool_data \in PoolChoices, base_data \in VaultChoices,
          quote_data \in VaultChoices, clock_data \in ClockChoices :
         \* one key holds one account
         /\ (snap.plasma_amm.header.base_params.vault_key
               = snap.plasma_amm.header.quote_params.vault_key) => quote_data = base_data
         /\ UpdateWith(pool_data, base_data, quote_data, clock_data)
    /\ UNCHANGED <<pc, build, fx>>

SwapParams ==
    [in_amount : Amounts, out_amount : Amounts, source_mint : Mints,
     source_token_account : TokenAccounts, destination_token_account : TokenAccounts,
     token_transfer_authority : Traders]

Quote ==
    /\ pc = "ready"
    /\ \E quote_params \in QuoteParams :
         call' = [op |-> "quote", params |-> quote_params,
                  result |-> quote(snap, quote_params)]
    /\ UNCHANGED <<pc, snap, payload_cycle, slot_cycle, build, fx>>

GetSwapAndAccountMetas ==
    /\ pc = "ready"
    /\ \E swap_params \in SwapParams :
         /\ swap_params.source_token_account # swap_params.destination_token_account
         /\ call' = [op |-> "get_swap_and_account_metas", params |-> swap_params,
                     result |-> get_swap_and_account_metas(snap, swap_params),
                     ix |-> swap_ix(snap, swap_params)]
    /\ UNCHANGED <<pc, snap, payload_cycle, slot_cycle, build, fx>>

Next == FromKeyedAccount \/ Update

(***************************************************************************)
(* Quotes and swap instructions from a snapshot.  The snapshot is any one  *)
(* from_keyed_account and update can leave: a decoded pool account, two    *)
(* vault amounts and a slot.  The pools include those whose base mint is   *)
(* also their quote mint.                                                  *)
(***************************************************************************)
QuotePoolBuffers == PoolBuffersOf(PoolMints)

Snapshots ==
    {[pool_address |-> key,
      plasma_amm |-> PoolAccount_try_from_slice(data).value,
      base_vault_amount |-> b,
      quote_vault_amount |-> q,
      slot |-> s] :
        key \in PoolKeys, data \in QuotePoolBuffers,
        b \in 0..MaxAmount, q \in 0..MaxAmount, s \in Slots}

InitQuote ==
    /\ pc = "ready"
    /\ snap \in Snapshots
    /\ call = [op |-> "none"]
    /\ payload_cycle = 0
    /\ slot_cycle = 0
    /\ build = NoBuild
    /\ fx = NoOperands

NextQuote == Quote \/ GetSwapAndAccountMetas

SpecQuote == InitQuote /\ [][NextQuote]_vars

Spec == Init /\ [][Next]_vars

(***************************************************************************)
(* Claims about refresh (specification Spec).                              *)
(***************************************************************************)
\* C1: a refresh that returns an error leaves every field of the snapshot
\* (pool payload, base_vault_amount, quote_vault_amount, slot) as it was
\* before the call.
C1_FailedUpdateLeavesSnapshot ==
    [][(call'.op = "update" /\ ~call'.ok) => snap' = snap]_vars

\* C2: in every snapshot the slot and the pool payload were written by the
\* same refresh cycle (or both at construction).
C2_SlotAndPayloadSameCycle ==
    pc = "ready" => payload_cycle = slot_cycle

\* C3: no snapshot holds a header whose discriminator is not
\* POOL_DISCRIMINATOR: decoding rejects every other leading 8 bytes.
C3_DiscriminatorValidated ==
    pc = "ready" => snap.plasma_amm.header.discriminator = POOL_DISCRIMINATOR

\* The snapshot with everything but the pool payload and the slot erased.
PayloadAndSlot(self) ==
    [self EXCEPT !.pool_address = 0, !.base_vault_amount = 0, !.quote_vault_amount = 0]

\* C6: a snapshot refreshed again with the identical account map gives the
\* identical result for every quote, and the quotes of a snapshot are those
\* of its pool payload and slot alone.
C6_QuoteDeterminism ==
    /\ (call.op = "update" /\ call.ok /\ call.repeat)
          => QuoteTable(snap) = call.quotes_before
    /\ pc = "ready" => QuoteTable(snap) = QuoteTable(PayloadAndSlot(snap))

\* A second successful refresh with the map of the one before it, of a pool
\* that gives quotes.
C6_Witness ==
    /\ call.op = "update" /\ call.ok /\ call.repeat
    /\ snap.base_vault_amount > 0
    /\ \E p \in QuoteParams : QuoteTable(snap)[p].ok

\* C12: in every snapshot that from_keyed_account or update accepted, the
\* stored base and quote vault addresses are the addresses derived from
\* (program id, pool address, mint) with the "vault" seed, so the vault
\* accounts update reads (get_accounts_to_update) are the vault accounts of
\* every swap instruction built from the snapshot.
C12_StoredVaultsAreDerived ==
    pc = "ready" =>
        LET h == snap.plasma_amm.header
            read == get_accounts_to_update(snap)
        IN
        /\ h.base_params.vault_key
              = get_vault_address(ID, snap.pool_address, h.base_params.mint_key)
        /\ h.quote_params.vault_key
              = get_vault_address(ID, snap.pool_address, h.quote_params.mint_key)
        /\ \A swap_params \in SwapParams :
              LET accounts == swap_ix(snap, swap_params).accounts IN
              /\ accounts[7].pubkey = read[2]
              /\ accounts[8].pubkey = read[3]

(***************************************************************************)
(* Claims about quote and get_swap_and_account_metas (SpecQuote).          *)
(***************************************************************************)
IsThirdMint(self, mint) ==
    /\ mint # self.plasma_amm.header.base_params.mint_key
    /\ mint # self.plasma_amm.header.quote_params.mint_key

\* C4: quote fails for an input mint that is neither the base mint nor the
\* quote mint of the snapshot.
C4_ThirdMintQuoteFails ==
    (call.op = "quote" /\ IsThirdMint(snap, call.params.input_mint))
        => ~call.result.ok

\* C5: an input mint equal to the quote mint is quoted by the buy simulation
\* at (snapshot slot, amount) and returns its base_amount_to_transfer; an
\* input mint equal to the base mint and not the quote mint is quoted by the
\* sell simulation and returns its quote_amount_to_transfer; in_amount is
\* the requested amount.
C5_QuoteDirection ==
    call.op = "quote" =>
        LET p == call.params
            h == snap.plasma_amm.header
            buy == simulate_buy_exact_in_with_slot(snap.plasma_amm.amm, snap.slot, p.amount)
            sell == simulate_sell_exact_in_with_slot(snap.plasma_amm.amm, snap.slot, p.amount)
        IN
        /\ p.input_mint = h.quote_params.mint_key =>
              /\ call.result.ok = buy.ok
              /\ buy.ok => /\ call.result.out_amount = buy.base_amount_to_transfer
                           /\ call.result.in_amount = p.amount
        /\ (p.input_mint = h.base_params.mint_key
                /\ p.input_mint # h.quote_params.mint_key) =>
              /\ call.result.ok = sell.ok
              /\ sell.ok => /\ call.result.out_amount = sell.quote_amount_to_transfer
                            /\ call.result.in_amount = p.amount

\* A successful quote of the base mint on a pool of two different mints.
C5_Witness ==
    /\ call.op = "quote" /\ call.result.ok
    /\ call.params.input_mint = snap.plasma_amm.header.base_params.mint_key
    /\ call.params.input_mint # snap.plasma_amm.header.quote_params.mint_key

\* The nine accounts of a swap in the documented order, with the documented
\* flags.
SwapAccountsExpected(pool, trader, base_mint, quote_mint, base_account, quote_account) ==
    LET keys == <<ID, get_log_authority(ID), pool, trader, base_account, quote_account,
                  get_vault_address(ID, pool, base_mint),
                  get_vault_address(ID, pool, quote_mint), SPL_TOKEN_ID>>
        writable == <<FALSE, FALSE, TRUE, FALSE, TRUE, TRUE, TRUE, TRUE, FALSE>>
    IN [i \in 1..9 |-> [pubkey |-> keys[i], is_signer |-> (i = 4),
                        is_writable |-> writable[i]]]

\* C7: the account list of the swap instruction, and the account_metas
\* get_swap_and_account_metas returns, are the nine documented entries in
\* order; the trader is the only signer.
C7_SwapAccountList ==
    call.op = "get_swap_and_account_metas" =>
        LET h == snap.plasma_amm.header
            atas == swap_user_atas(snap, call.params)
            expected == SwapAccountsExpected(snap.pool_address,
                            call.params.token_transfer_authority,
                            h.base_params.mint_key, h.quote_params.mint_key,
                            atas.user_base_ata, atas.user_quote_ata)
        IN
        /\ call.ix.accounts = expected
        /\ call.result.account_metas = expected
        /\ Len(call.result.account_metas) = 9
        /\ \A i \in 1..9 : call.result.account_metas[i].is_signer <=> (i = 4)

C7_Witness ==
    /\ call.op = "get_swap_and_account_metas"
    /\ Len(call.result.account_metas) = 9
    /\ call.result.account_metas[4].pubkey = call.params.token_transfer_authority

\* C13: for every source mint, a mint that is neither pool mint included,
\* the side of the swap instruction and the placement of the caller's token
\* accounts agree: the side is Sell exactly when the source token account is
\* the trader's base account (account 5 of the instruction), and Buy
\* exactly when it is the trader's quote account (account 6).
C13_SideAgreesWithPlacement ==
    call.op = "get_swap_and_account_metas" =>
        LET source == call.params.source_token_account
            side_byte == call.ix.data[2]
        IN
        /\ side_byte = borsh_side("Sell")[1] <=> call.ix.accounts[5].pubkey = source
        /\ side_byte = borsh_side("Buy")[1] <=> call.ix.accounts[6].pubkey = source

(***************************************************************************)
(* The six instruction encoders, called with parameters of their own.      *)
(***************************************************************************)
\* u64 values of one, two and four significant bytes.
U64Values == {0, 1, 258, 16909060}
OptionU64Values == {[some |-> FALSE, value |-> 0]} \cup {[some |-> TRUE, value |-> v] : v \in U64Values}

SwapTypes ==
    {[variant |-> "ExactIn", amount_in |-> a, min_amount_out |-> b] : a, b \in U64Values}
        \cup {[variant |-> "ExactOut", amount_out |-> a, max_amount_in |-> b] : a, b \in U64Values}

SwapInstructionParams == [side : {"Buy", "Sell"}, swap_type : SwapTypes]

AddLiquidityParams ==
    [desired_base_amount_in : {1, 258}, desired_quote_amount_in : {0, 16909060},
     initial_lp_shares : OptionU64Values]

FeeRecipientParams == [recipient : Owners, shares : {1, 258}]

InitializePoolParams ==
    [lp_fee_in_bps : {0, 258}, protocol_fee_allocation_in_pct : {1},
     fee_recipients_params : {<<a, b, b>> : a, b \in FeeRecipientParams},
     num_slots_to_vest_lp_shares : OptionU64Values]

InitIx ==
    /\ pc = "ready"
    /\ snap = NoSnap
    /\ call = [op |-> "none"]
    /\ payload_cycle = 0
    /\ slot_cycle = 0
    /\ build = NoBuild
    /\ fx = NoOperands

IxSwap ==
    /\ \E pool_key \in PoolKeys, trader \in Traders, params \in SwapInstructionParams :
         call' = [op |-> "swap", params |-> params,
                  ix |-> swap(pool_key, trader, 1, 2, 6, 7, params)]
    /\ UNCHANGED <<pc, snap, payload_cycle, slot_cycle, build, fx>>

IxAddLiquidity ==
    /\ \E pool_key \in PoolKeys, trader \in Traders, params \in AddLiquidityParams :
         call' = [op |-> "add_liquidity", params |-> params,
                  ix |-> add_liquidity(pool_key, trader, 1, 6, 2, 7, params)]
    /\ UNCHANGED <<pc, snap, payload_cycle, slot_cycle, build, fx>>

IxRemoveLiquidity ==
    /\ \E pool_key \in PoolKeys, trader \in Traders, shares \in U64Values :
         call' = [op |-> "remove_liquidity", params |-> shares,
                  ix |-> remove_liquidity(pool_key, trader, 1, 2, 6, 7, shares)]
    /\ UNCHANGED <<pc, snap, payload_cycle, slot_cycle, build, fx>>

IxInitializeLpPosition ==
    /\ \E pool_key \in PoolKeys, payer \in Traders, owner \in Owners :
         call' = [op |-> "initialize_lp_position", params |-> owner,
                  ix |-> initialize_lp_position(pool_key, payer, owner)]
    /\ UNCHANGED <<pc, snap, payload_cycle, slot_cycle, build, fx>>

IxInitializePool ==
    /\ \E pool_key \in PoolKeys, pool_creator \in Traders, params \in InitializePoolParams :
         call' = [op |-> "initialize_pool", params |-> params,
                  ix |-> initialize_pool(pool_key, pool_creator, 1, 2, params)]
    /\ UNCHANGED <<pc, snap, payload_cycle, slot_cycle, build, fx>>

IxTransferLiquidity ==
    /\ \E pool_key \in PoolKeys, src \in Traders, dst \in Owners :
         call' = [op |-> "transfer_liquidity", params |-> dst,
                  ix |-> transfer_liquidity(pool_key, src, dst)]
    /\ UNCHANGED <<pc, snap, payload_cycle, slot_cycle, build, fx>>

NextIx ==
    \/ IxSwap
    \/ IxAddLiquidity
    \/ IxRemoveLiquidity
    \/ IxInitializeLpPosition
    \/ IxInitializePool
    \/ IxTransferLiquidity

SpecIx == InitIx /\ [][NextIx]_vars

(***************************************************************************)
(* Claims about the instruction payloads (SpecIx).                         *)
(***************************************************************************)
RECURSIVE from_le_bytes(_)
\* The number a little-endian byte string stands for.
from_le_bytes(bytes) ==
    IF bytes = <<>> THEN 0 ELSE Head(bytes) + (256 * from_le_bytes(Tail(bytes)))

\* The u64 at 0-based offset off of a payload.
U64At(payload, off) == from_le_bytes(SubSeq(payload, off + 1, off + 8))

\* Whether payload, from 0-based offset off to its end, is the encoding of
\* the Option<u64> o: one byte 0, or one byte 1 and the 8 bytes of the value.
IsOptionU64At(payload, off, o) ==
    IF o.some
    THEN Len(payload) = off + 9 /\ payload[off + 1] = 1 /\ U64At(payload, off + 1) = o.value
    ELSE Len(payload) = off + 1 /\ payload[off + 1] = 0

\* Whether payload is the canonical encoding of the parameters of op: the
\* fields in declaration order at their fixed offsets, integers
\* little-endian, nothing before, between or after them.
IsCanonicalPayload(op, params, payload) ==
    CASE op = "swap" ->
           /\ Len(payload) = 18
           /\ payload[1] = (IF params.side = "Buy" THEN 0 ELSE 1)
           /\ IF params.swap_type.variant = "ExactIn"
              THEN /\ payload[2] = 0
                   /\ U64At(payload, 2) = params.swap_type.amount_in
                   /\ U64At(payload, 10) = params.swap_type.min_amount_out
              ELSE /\ payload[2] = 1
                   /\ U64At(payload, 2) = params.swap_type.amount_out
                   /\ U64At(payload, 10) = params.swap_type.max_amount_in
      [] op = "add_liquidity" ->
           /\ U64At(payload, 0) = params.desired_base_amount_in
           /\ U64At(payload, 8) = params.desired_quote_amount_in
           /\ IsOptionU64At(payload, 16, params.initial_lp_shares)
      [] op = "remove_liquidity" ->
           /\ Len(payload) = 8
           /\ U64At(payload, 0) = params
      [] op = "initialize_pool" ->
           /\ U64At(payload, 0) = params.lp_fee_in_bps
           /\ U64At(payload, 8) = params.protocol_fee_allocation_in_pct
           /\ \A i \in 1..3 :
                LET off == 16 + (40 * (i - 1)) IN
                /\ from_le_bytes(SubSeq(payload, off + 1, off + 32))
                      = params.fee_recipients_params[i].recipient
                /\ U64At(payload, off + 32) = params.fee_recipients_params[i].shares
           /\ IsOptionU64At(payload, 136, params.num_slots_to_vest_lp_shares)
      [] OTHER -> payload = <<>>

OpDiscriminator(op) ==
    CASE op = "swap" -> 0
      [] op = "add_liquidity" -> 1
      [] op = "remove_liquidity" -> 2
      [] op = "initialize_lp_position" -> 5
      [] op = "initialize_pool" -> 6
      [] op = "transfer_liquidity" -> 9

\* C8: the first payload byte of every encoded instruction is the
\* discriminator of its operation (swap 0, add_liquidity 1,
\* remove_liquidity 2, initialize_lp_position 5, initialize_pool 6,
\* transfer_liquidity 9) and the rest is the canonical serialization of the
\* parameters with no length prefix: empty for initialize_lp_position and
\* transfer_liquidity, the 8 bytes of the share count for remove_liquidity.
C8_PayloadLayout ==
    call.op # "none" =>
        /\ Len(call.ix.data) >= 1
        /\ \A i \in 1..Len(call.ix.data) : call.ix.data[i] \in 0..255
        /\ Head(call.ix.data) = OpDiscriminator(call.op)
        /\ IsCanonicalPayload(call.op, call.params, Tail(call.ix.data))

\* A remove_liquidity instruction whose share count needs four bytes.
C8_Witness ==
    /\ call.op = "remove_liquidity"
    /\ call.params = 16909060
    /\ call.ix.data = <<2, 4, 3, 2, 1, 0, 0, 0, 0>>

(***************************************************************************)
(* I80F48 (fixed.rs): a wrapper of the bits of fixed::types::I80F48.  A    *)
(* value is its signed bit pattern `inner`.  The operators of the fixed    *)
(* crate compute on the bits with the integer operators of the build:      *)
(* with overflow checks (debug assertions for the product) an overflow     *)
(* panics, without them the result wraps.                                  *)
(***************************************************************************)
RECURSIVE Pow2(_)
Pow2(n) == IF n = 0 THEN 1 ELSE 2 * Pow2(n - 1)

FixedMin == -Pow2(FixedBits - 1)
FixedMax == Pow2(FixedBits - 1) - 1
FixedValues == FixedMin..FixedMax

Representable(x) == FixedMin <= x /\ x <= FixedMax
\* The two's-complement value of the low FixedBits bits of x.
WrapBits(x) == ((x - FixedMin) % Pow2(FixedBits)) + FixedMin

\* floor(x / 2^FracBits): the arithmetic shift right the product ends with.
ShiftRightFrac(x) == x \div Pow2(FracBits)

\* What an arithmetic operator returns for the exact result `exact`, in a
\* build that checks (checked) or does not check for overflow.
Arith(exact, checked) ==
    IF Representable(exact) THEN [panicked |-> FALSE, inner |-> exact]
    ELSE IF checked THEN [panicked |-> TRUE, inner |-> 0]
    ELSE [panicked |-> FALSE, inner |-> WrapBits(exact)]

I80F48_add(profile, self, rhs) == Arith(self + rhs, profile.overflow_checks)

\* Sub with the operator of Add left in it.
I80F48_sub_adds(profile, self, rhs) == Arith(self + rhs, profile.overflow_checks)

I80F48_sub(profile, self, rhs) == Arith(self - rhs, profile.overflow_checks)

I80F48_mul(profile, self, rhs) ==
    Arith(ShiftRightFrac(self * rhs), profile.debug_assertions)

\* The u64 values of the model.  A u64 has 64 bits and I80F48 has 79 integer
\* bits below its sign, so every u64 converts; the model keeps that by
\* giving a u64 the integer bits of the model's fixed-point number.
U64Bits == FixedBits - FracBits - 1
U64s == 0..(Pow2(U64Bits) - 1)

\* fixed::types::I80F48::from_num of a u64: the value with no fraction.
I80F48_from_num(value) == value * Pow2(FracBits)

\* The `/` of fixed::types::I80F48 on two non-negative values: a zero
\* divisor panics in every build; otherwise the quotient of the bits, with
\* the dividend shifted left by the fractional bits, overflow handled as
\* for the product.
FixedI80F48_div(profile, lhs, rhs) ==
    IF rhs = 0
    THEN [panicked |-> TRUE, inner |-> 0, why |-> "division by zero"]
    ELSE LET q == Arith((lhs * Pow2(FracBits)) \div rhs, profile.debug_assertions) IN
         [panicked |-> q.panicked, inner |-> q.inner,
          why |-> IF q.panicked THEN "overflow" ELSE "none"]

\* from_fraction with a zero denominator answered by ZERO.
I80F48_from_fraction_zero_default(profile, numerator, denominator) ==
    IF denominator = 0
    THEN [panicked |-> FALSE, inner |-> 0, why |-> "none"]
    ELSE FixedI80F48_div(profile, I80F48_from_num(numerator), I80F48_from_num(denominator))

I80F48_from_fraction(profile, numerator, denominator) ==
    FixedI80F48_div(profile, I80F48_from_num(numerator), I80F48_from_num(denominator))

\* PartialEq: the two decoded values are compared.
I80F48_eq(self, rhs) == self = rhs

\* The expression (a + b) - b.
AddThenSub(profile, a, b) ==
    LET sum == I80F48_add(profile, a, b) IN
    IF sum.panicked THEN sum ELSE I80F48_sub(profile, sum.inner, b)

\* The exact value of a op b, in units of 2^-FracBits, rounded down as the
\* product is.
Exact(op, a, b) ==
    CASE op = "add" -> a + b
      [] op = "sub" -> a - b
      [] op = "mul" -> ShiftRightFrac(a * b)

BuildProfiles == [overflow_checks : BOOLEAN, debug_assertions : BOOLEAN]

InitFixed ==
    /\ pc = "ready"
    /\ snap = NoSnap
    /\ call = [op |-> "none"]
    /\ payload_cycle = 0
    /\ slot_cycle = 0
    /\ build \in BuildProfiles
    /\ fx \in [a : FixedValues, b : FixedValues]

FixedAdd ==
    /\ call' = [op |-> "add", a |-> fx.a, b |-> fx.b,
                result |-> I80F48_add(build, fx.a, fx.b)]
    /\ UNCHANGED <<pc, snap, payload_cycle, slot_cycle, build, fx>>

FixedSub ==
    /\ call' = [op |-> "sub", a |-> fx.a, b |-> fx.b,
                result |-> I80F48_sub(build, fx.a, fx.b)]
    /\ UNCHANGED <<pc, snap, payload_cycle, slot_cycle, build, fx>>

FixedMul ==
    /\ call' = [op |-> "mul", a |-> fx.a, b |-> fx.b,
                result |-> I80F48_mul(build, fx.a, fx.b)]
    /\ UNCHANGED <<pc, snap, payload_cycle, slot_cycle, build, fx>>

FixedAddThenSub ==
    /\ call' = [op |-> "add_then_sub", a |-> fx.a, b |-> fx.b,
                result |-> AddThenSub(build, fx.a, fx.b)]
    /\ UNCHANGED <<pc, snap, payload_cycle, slot_cycle, build, fx>>

FixedFromFraction ==
    /\ \E numerator \in U64s, denominator \in U64s :
         call' = [op |-> "from_fraction", numerator |-> numerator,
                  denominator |-> denominator,
                  result |-> I80F48_from_fraction(build, numerator, denominator)]
    /\ UNCHANGED <<pc, snap, payload_cycle, slot_cycle, build, fx>>

NextFixed == FixedAdd \/ FixedSub \/ FixedMul \/ FixedAddThenSub \/ FixedFromFraction

SpecFixed == InitFixed /\ [][NextFixed]_vars

(***************************************************************************)
(* Claims about I80F48 (SpecFixed).                                        *)
(***************************************************************************)
\* C9: when the exact result of a + b, a - b or a * b is not representable,
\* the operation fails; it never returns a wrapped value.
C9_OverflowIsHardFailure ==
    (call.op \in {"add", "sub", "mul"} /\ ~Representable(Exact(call.op, call.a, call.b)))
        => call.result.panicked

\* C10 as claimed: for all bit patterns a and b, (a + b) - b evaluates to a
\* value equal to a.
C10_AddThenSubAllPatterns ==
    call.op = "add_then_sub" =>
        /\ ~call.result.panicked
        /\ I80F48_eq(call.result.inner, call.a)

\* C10 as amended: (a + b) - b evaluates to a value equal to a whenever the
\* sum a + b is representable, and whenever it evaluates to a value at all.
C10_AddThenSubRepresentable ==
    call.op = "add_then_sub" =>
        /\ Representable(call.a + call.b) => ~call.result.panicked
        /\ ~call.result.panicked => I80F48_eq(call.result.inner, call.a)

\* (a + b) - b evaluated for a negative a and a positive b.
C10_Witness ==
    /\ call.op = "add_then_sub"
    /\ call.a < 0 /\ call.b > 0
    /\ Representable(call.a + call.b)
    /\ ~call.result.panicked /\ call.result.inner = call.a

\* C11: for every u64 numerator n, from_fraction(n, 0) fails with a division
\* error (the division panics on its zero divisor, in every build) and
\* never returns a fixed-point value.
C11_FromFractionZeroDenominator ==
    (call.op = "from_fraction" /\ call.denominator = 0)
        => /\ call.result.panicked
           /\ call.result.why = "division by zero"

\* from_fraction of the largest numerator over zero, in the build with no
\* overflow checks and no debug assertions.
C11_Witness ==
    /\ call.op = "from_fraction"
    /\ call.numerator = Pow2(U64Bits) - 1 /\ call.denominator = 0
    /\ ~build.overflow_checks /\ ~build.debug_assertions
    /\ call.result.panicked

====
